---- MODULE Spec2Model ----
(***************************************************************************)
(* The financial ledger of the school management backend:                  *)
(* src/financial.py (the fee structure, invoice, payment and report        *)
(* routes) over the fee_structures, invoices and payments tables.          *)
(* Requests are served by concurrent                                       *)
(* workers; each worker's SQLAlchemy session reads committed rows and      *)
(* writes them in one transaction at db.session.commit().                  *)
(* Money is counted in whole units.                                        *)
(***************************************************************************)
EXTENDS Integers, Sequences, FiniteSets, TLC

VARIABLES
  invoices,   \* table invoices: row i is the invoice with invoice_id = i
  payments,   \* table payments: row k is the payment with payment_id = k
  pc,         \* pc[w]: where worker w stands in the handler it is serving
  req,        \* req[w]: the request worker w is serving and its locals
  last,       \* the call that was answered last: caller, body, status code
  credited,   \* credited[i]: amounts of the payments acknowledged with 201
              \* for invoice i that were requested as Completed
  fee_structures, \* table fee_structures: row f is the one with fee_id = f
  books,          \* table library_books: row b is the one with book_id = b
  transactions,   \* table book_transactions, by transaction_id
  enrollments,    \* table enrollments, by enrollment_id
  academic_years, \* table academic_years, by year_id
  attendance      \* table attendance_records, by record_id

vars == <<invoices, payments, pc, req, last, credited, fee_structures,
          books, transactions, enrollments, academic_years, attendance>>

\* the tables of the financial ledger with the workers that serve it, and the
\* tables of the library, of the classes and of the attendance
ledger == <<invoices, payments, pc, req, credited, fee_structures>>
school == <<books, transactions, enrollments, academic_years, attendance>>

----------------------------------------------------------------------------
(* Bounds of the model *)

MaxInvoices == 2
MaxPayments == 2
MaxAmount == 2
MaxFees == 1
MaxBooks == 1
MaxTransactions == 2
MaxEnrollments == 3
MaxYears == 4
MaxAttendance == 2
MaxRecords == 2

Workers == {1, 2}

Absent == "absent"      \* a key the JSON body does not carry

----------------------------------------------------------------------------
(* Users, students and callers *)

\* rows of the students table (student_id, user_id)
students ==
  { [student_id |-> 1, user_id |-> 11],
    [student_id |-> 2, user_id |-> 12] }

\* request.current_user as token_required attaches it: the two students, an
\* admin and a teacher
Callers ==
  { [user_id |-> 11, role_type |-> "student"],
    [user_id |-> 12, role_type |-> "student"],
    [user_id |-> 21, role_type |-> "admin"],
    [user_id |-> 23, role_type |-> "teacher"] }

\* Student.query.filter_by(user_id=u).first(): the matching rows
StudentByUser(u) == { s \in students : s.user_id = u }

\* role_required(allowed_roles)
RoleAllowed(c, allowed_roles) == c.role_type \in allowed_roles

\* a permission check that lets every student pay every invoice
PaymentPermittedAnyStudent(c, invoice) ==
  c.role_type \in {"student", "admin", "staff"}

\* the permission check of create_payment on a resolved invoice
PaymentPermitted(c, invoice) ==
  IF c.role_type = "student"
    THEN LET student == StudentByUser(c.user_id)
         IN  /\ student # {}
             /\ \E s \in student : s.student_id = invoice.student_id
    ELSE c.role_type \in {"admin", "staff"}

----------------------------------------------------------------------------
(* Invoice and payment rows *)

\* f"{invoice_count:06d}": the six decimal digits, most significant first
Pow10(k) == IF k = 0 THEN 1 ELSE IF k = 1 THEN 10 ELSE IF k = 2 THEN 100
            ELSE IF k = 3 THEN 1000 ELSE IF k = 4 THEN 10000 ELSE 100000

\* a number that does not follow the count
InvoiceNumberStuck(invoice_count) ==
  [k \in 1..6 |-> IF k = 6 THEN 1 ELSE 0]

InvoiceNumber(invoice_count) ==
  [k \in 1..6 |-> (invoice_count \div Pow10(6 - k)) % 10]

\* a new invoices row that is Pending whatever it totals
InvoiceStatusAlwaysPending(total_amount) == "Pending"

\* the status a new invoices row gets when the handler sets none: Pending, or
\* Paid when nothing is left to pay
InvoiceStatusDefault(total_amount) ==
  IF total_amount <= 0 THEN "Paid" ELSE "Pending"

\* Invoice(...) as create_invoice builds it
NewInvoice(data, invoice_count) ==
  [ student_id     |-> data.student_id,
    invoice_number |-> InvoiceNumber(invoice_count),
    amount         |-> data.amount,
    discount       |-> data.discount,
    total_amount   |-> data.amount - data.discount,
    due_date       |-> data.due_date,
    fee_id         |-> data.fee_id,
    status         |-> InvoiceStatusDefault(data.amount - data.discount) ]

\* a Payment(...) that drops the status of the body
NewPaymentAlwaysCompleted(data, invoice) ==
  [ invoice_id |-> data.invoice_id,
    student_id |-> invoice.student_id,
    amount     |-> data.amount,
    status     |-> "Completed" ]

\* a Payment(...) that gives the amount back
NewPaymentNegated(data, invoice) ==
  [ invoice_id |-> data.invoice_id,
    student_id |-> invoice.student_id,
    amount     |-> 0 - data.amount,
    status     |-> IF data.status = Absent THEN "Completed" ELSE data.status ]

\* Payment(...) as create_payment builds it
NewPayment(data, invoice) ==
  [ invoice_id |-> data.invoice_id,
    student_id |-> invoice.student_id,
    amount     |-> data.amount,
    status     |-> IF data.status = Absent THEN "Completed" ELSE data.status ]

RECURSIVE SumCompleted(_, _)
\* the sum of the amounts of the Completed payments of invoice id in rows pays
SumCompleted(pays, id) ==
  IF pays = << >> THEN 0
  ELSE LET p == Head(pays)
       IN  (IF p.invoice_id = id /\ p.status = "Completed" THEN p.amount ELSE 0)
           + SumCompleted(Tail(pays), id)

\* Invoice.calculate_balance()
CalculateBalance(invs, pays, id) ==
  invs[id].total_amount - SumCompleted(pays, id)

\* a create_payment without its amount check
NonPositiveUnchecked(amount) == FALSE

\* amount <= 0 in create_payment
NonPositive(amount) == amount <= 0

\* a balance check that lets one unit too much through
ExceedsBalanceOffByOne(amount, outstanding_balance) == amount > outstanding_balance + 1

\* amount > outstanding_balance in create_payment
ExceedsBalance(amount, outstanding_balance) == amount > outstanding_balance

\* the status create_payment assigns to the invoice it loaded
NewStatus(loaded_status, outstanding_balance, amount) ==
  LET new_balance == outstanding_balance - amount
  IN  IF new_balance <= 0 THEN "Paid"
      ELSE IF loaded_status = "Pending" THEN "Partial"
      ELSE loaded_status

----------------------------------------------------------------------------
(* Request bodies *)

\* bodies of POST /invoices: fee_id and due_date are always given, the amount
\* is missing (0) or MaxAmount, the discount leaves all, nothing or less than
\* nothing of it; dates are counted in days
InvoiceData ==
  [ student_id : {1},
    amount     : {0, MaxAmount},
    discount   : {0, MaxAmount, MaxAmount + 1},
    due_date   : {1},
    fee_id     : {1} ]

\* bodies of POST /payments: payment_method is always given, status is not
\* given or names a status other than Completed
PaymentData ==
  [ invoice_id : 1..(MaxInvoices + 1),
    amount     : (-1)..MaxAmount,
    status     : {Absent, "Failed", "Pending"} ]

\* the callers and bodies of the requests that are served concurrently
ConcCallers == { c \in Callers : c.role_type = "admin" }

ConcInvoiceData == { d \in InvoiceData : d.student_id = 1 /\ d.discount = 0 }

ConcPaymentData ==
  { d \in PaymentData : d.invoice_id <= MaxInvoices /\ d.status = Absent }

NoRequest == [op |-> "none"]

\* what is recorded of an answered call
AnsweredInvoice(c, data, code) ==
  [op |-> "create_invoice", caller |-> c, amount |-> data.amount,
   discount |-> data.discount, student_id |-> data.student_id,
   fee_id |-> data.fee_id, code |-> code]

AnsweredPayment(c, data, code) ==
  [op |-> "create_payment", caller |-> c, invoice_id |-> data.invoice_id,
   amount |-> data.amount, code |-> code]

----------------------------------------------------------------------------
Init ==
  /\ invoices = << >>
  /\ payments = << >>
  /\ pc = [w \in Workers |-> "idle"]
  /\ req = [w \in Workers |-> NoRequest]
  /\ last = [op |-> "none", code |-> 0]
  /\ credited = << >>
  /\ fee_structures = << >>
  /\ books = << >>
  /\ transactions = << >>
  /\ enrollments = << >>
  /\ academic_years = << >>
  /\ attendance = << >>

\* worker w returns to the pool
Return(w) ==
  /\ pc' = [pc EXCEPT ![w] = "idle"]
  /\ req' = [req EXCEPT ![w] = NoRequest]

----------------------------------------------------------------------------
(* POST /invoices: create_invoice *)

\* role_required and the required fields: the status code of an early return,
\* 0 when there is none
InvoiceEarlyReturn(c, data) ==
  IF ~RoleAllowed(c, {"admin", "staff"}) THEN 403
  ELSE IF data.amount = 0 THEN 400
  ELSE 0

\* whether the invoices table refuses the INSERT of a row: the design notes no
\* constraint that makes invoice_number collision-free
RefusedByStore(invs, row) == FALSE

\* db.session.add(invoice); db.session.commit(): the INSERT
CommitInvoice(data, invoice_count) ==
  /\ ~RefusedByStore(invoices, NewInvoice(data, invoice_count))
  /\ invoices' = Append(invoices, NewInvoice(data, invoice_count))
  /\ credited' = Append(credited, 0)
  /\ UNCHANGED payments

\* the whole handler, served alone
CreateInvoice(c, data) ==
  /\ UNCHANGED school
  /\ UNCHANGED <<pc, req, fee_structures>>
  /\ IF InvoiceEarlyReturn(c, data) # 0
       THEN /\ UNCHANGED <<invoices, payments, credited>>
            /\ last' = AnsweredInvoice(c, data, InvoiceEarlyReturn(c, data))
       ELSE /\ Len(invoices) < MaxInvoices
            /\ \/ /\ CommitInvoice(data, Len(invoices) + 1)
                  /\ last' = AnsweredInvoice(c, data, 201)
               \/ /\ UNCHANGED <<invoices, payments, credited>>
                  /\ last' = AnsweredInvoice(c, data, 500)

\* the handler up to invoice_count = Invoice.query.count() + 1
InvoiceBegin(w, c, data) ==
  /\ UNCHANGED school
  /\ pc[w] = "idle"
  /\ UNCHANGED <<invoices, payments, credited, fee_structures>>
  /\ IF InvoiceEarlyReturn(c, data) # 0
       THEN /\ Return(w)
            /\ last' = AnsweredInvoice(c, data, InvoiceEarlyReturn(c, data))
       ELSE /\ Len(invoices) < MaxInvoices
            /\ pc' = [pc EXCEPT ![w] = "invoice_counted"]
            /\ req' = [req EXCEPT ![w] =
                         [op |-> "create_invoice", caller |-> c, data |-> data,
                          invoice_count |-> Len(invoices) + 1]]
            /\ UNCHANGED last

\* the handler from Invoice(...) to the 201
InvoiceCommit(w) ==
  /\ UNCHANGED school
  /\ pc[w] = "invoice_counted"
  /\ UNCHANGED fee_structures
  /\ Len(invoices) < MaxInvoices
  /\ CommitInvoice(req[w].data, req[w].invoice_count)
  /\ Return(w)
  /\ last' = AnsweredInvoice(req[w].caller, req[w].data, 201)

\* the commit raises: db.session.rollback(), 500
InvoiceFail(w) ==
  /\ UNCHANGED school
  /\ pc[w] = "invoice_counted"
  /\ UNCHANGED <<invoices, payments, credited, fee_structures>>
  /\ Return(w)
  /\ last' = AnsweredInvoice(req[w].caller, req[w].data, 500)

----------------------------------------------------------------------------
(* POST /payments: create_payment *)

\* required fields, Invoice.query.get, the permission check, the amount check:
\* the status code of an early return, 0 when there is none
PaymentEarlyReturn(invs, c, data) ==
  IF data.amount = 0 THEN 400
  ELSE IF data.invoice_id \notin DOMAIN invs THEN 404
  ELSE IF ~PaymentPermitted(c, invs[data.invoice_id]) THEN 403
  ELSE IF NonPositive(data.amount) THEN 400
  ELSE 0

\* a commit that persists the payment and loses the status of the invoice
CommitPaymentWithoutStatus(data, invoice, outstanding_balance) ==
  /\ payments' = Append(payments, NewPayment(data, invoice))
  /\ invoices' = invoices

\* what one db.session.commit() of create_payment writes: the INSERT of the
\* payment and the UPDATE of the status of the invoice when the handler changed
\* the status it had loaded
CommitPayment(data, invoice, outstanding_balance) ==
  LET status == NewStatus(invoice.status, outstanding_balance, data.amount)
  IN  /\ payments' = Append(payments, NewPayment(data, invoice))
      /\ invoices' = IF status = invoice.status THEN invoices
                     ELSE [invoices EXCEPT ![data.invoice_id].status = status]

\* the ledger of acknowledged payments after a 201
Credit(data) ==
  credited' = IF data.status = Absent
                THEN [credited EXCEPT ![data.invoice_id] = @ + data.amount]
                ELSE credited

\* the whole handler, served alone
CreatePayment(c, data) ==
  /\ UNCHANGED school
  /\ UNCHANGED <<pc, req, fee_structures>>
  /\ IF PaymentEarlyReturn(invoices, c, data) # 0
       THEN /\ UNCHANGED <<invoices, payments, credited>>
            /\ last' = AnsweredPayment(c, data, PaymentEarlyReturn(invoices, c, data))
       ELSE LET invoice == invoices[data.invoice_id]
                outstanding_balance ==
                  CalculateBalance(invoices, payments, data.invoice_id)
            IN  IF ExceedsBalance(data.amount, outstanding_balance)
                  THEN /\ UNCHANGED <<invoices, payments, credited>>
                       /\ last' = AnsweredPayment(c, data, 400)
                  ELSE /\ Len(payments) < MaxPayments
                       /\ \/ /\ CommitPayment(data, invoice, outstanding_balance)
                             /\ Credit(data)
                             /\ last' = AnsweredPayment(c, data, 201)
                          \/ /\ UNCHANGED <<invoices, payments, credited>>
                             /\ last' = AnsweredPayment(c, data, 500)

\* the handler up to the amount check: the invoice is loaded into the session
PaymentBegin(w, c, data) ==
  /\ UNCHANGED school
  /\ pc[w] = "idle"
  /\ UNCHANGED <<invoices, payments, credited, fee_structures>>
  /\ IF PaymentEarlyReturn(invoices, c, data) # 0
       THEN /\ Return(w)
            /\ last' = AnsweredPayment(c, data, PaymentEarlyReturn(invoices, c, data))
       ELSE /\ pc' = [pc EXCEPT ![w] = "payment_loaded"]
            /\ req' = [req EXCEPT ![w] =
                         [op |-> "create_payment", caller |-> c, data |-> data,
                          invoice |-> invoices[data.invoice_id]]]
            /\ UNCHANGED last

\* outstanding_balance = invoice.calculate_balance() and the balance check
PaymentBalance(w) ==
  /\ UNCHANGED school
  /\ pc[w] = "payment_loaded"
  /\ UNCHANGED <<invoices, payments, credited, fee_structures>>
  /\ LET outstanding_balance ==
           CalculateBalance(invoices, payments, req[w].data.invoice_id)
     IN  IF ExceedsBalance(req[w].data.amount, outstanding_balance)
           THEN /\ Return(w)
                /\ last' = AnsweredPayment(req[w].caller, req[w].data, 400)
           ELSE /\ Len(payments) < MaxPayments
                /\ pc' = [pc EXCEPT ![w] = "payment_checked"]
                /\ req' = [req EXCEPT ![w] =
                             [op |-> "create_payment", caller |-> req[w].caller,
                              data |-> req[w].data, invoice |-> req[w].invoice,
                              outstanding_balance |-> outstanding_balance]]
                /\ UNCHANGED last

\* the handler from Payment(...) to the 201
PaymentCommit(w) ==
  /\ UNCHANGED school
  /\ pc[w] = "payment_checked"
  /\ UNCHANGED fee_structures
  /\ Len(payments) < MaxPayments
  /\ CommitPayment(req[w].data, req[w].invoice, req[w].outstanding_balance)
  /\ Credit(req[w].data)
  /\ Return(w)
  /\ last' = AnsweredPayment(req[w].caller, req[w].data, 201)

\* the commit raises: db.session.rollback(), 500
PaymentFail(w) ==
  /\ UNCHANGED school
  /\ pc[w] = "payment_checked"
  /\ UNCHANGED <<invoices, payments, credited, fee_structures>>
  /\ Return(w)
  /\ last' = AnsweredPayment(req[w].caller, req[w].data, 500)

----------------------------------------------------------------------------
(* POST /fee-structures and PUT /fee-structures/<fee_id> *)

Malformed == "malformed"   \* a due_date that strptime does not parse

\* bodies of POST /fee-structures: school_id, year_id and fee_type are always
\* given, the amount is missing (0) or MaxAmount
FeeData ==
  [ fee_name : {"Tuition"},
    amount   : {0, MaxAmount},
    due_date : {Absent, "2026-01-01", Malformed} ]

\* bodies of PUT /fee-structures/<fee_id>: keys are the keys the body carries
FeeUpdateData ==
  [ keys     : SUBSET {"fee_name", "amount", "due_date"},
    fee_name : {"Library"},
    amount   : {1},
    due_date : {Malformed} ]

AnsweredFee(c, data, code) ==
  [op |-> "create_fee_structure", caller |-> c, code |-> code]

AnsweredFeeUpdate(c, fee_id, data, code) ==
  [op |-> "update_fee_structure", caller |-> c, fee_id |-> fee_id,
   fee_name |-> IF "fee_name" \in data.keys THEN data.fee_name ELSE Absent,
   code |-> code]

\* FeeStructure(...) as create_fee_structure builds it
NewFeeStructure(data) ==
  [ fee_name |-> data.fee_name,
    amount   |-> data.amount,
    due_date |-> data.due_date ]

\* the whole handler
CreateFeeStructure(c, data) ==
  /\ UNCHANGED school
  /\ UNCHANGED <<invoices, payments, pc, req, credited>>
  /\ IF ~RoleAllowed(c, {"admin", "staff"})
       THEN /\ UNCHANGED fee_structures
            /\ last' = AnsweredFee(c, data, 403)
     ELSE IF data.amount = 0
       THEN /\ UNCHANGED fee_structures
            /\ last' = AnsweredFee(c, data, 400)
     ELSE IF data.due_date = Malformed
       THEN /\ UNCHANGED fee_structures
            /\ last' = AnsweredFee(c, data, 500)
     ELSE /\ Len(fee_structures) < MaxFees
          /\ \/ /\ fee_structures' = Append(fee_structures, NewFeeStructure(data))
                /\ last' = AnsweredFee(c, data, 201)
             \/ /\ UNCHANGED fee_structures
                /\ last' = AnsweredFee(c, data, 500)

\* the assignments of update_fee_structure that come before the due_date
AssignedBeforeDueDate(fee_structure, data) ==
  [ fee_structure EXCEPT
      !.fee_name = IF "fee_name" \in data.keys THEN data.fee_name ELSE @,
      !.amount   = IF "amount" \in data.keys THEN data.amount ELSE @ ]

\* an update whose assignments outlive the exception of a due_date that does
\* not parse
UpdateFeeStructureWithoutRollback(c, fee_id, data) ==
  /\ UNCHANGED school
  /\ UNCHANGED <<invoices, payments, pc, req, credited>>
  /\ IF ~RoleAllowed(c, {"admin", "staff"})
       THEN /\ UNCHANGED fee_structures
            /\ last' = AnsweredFeeUpdate(c, fee_id, data, 403)
     ELSE IF fee_id \notin DOMAIN fee_structures
       THEN /\ UNCHANGED fee_structures
            /\ last' = AnsweredFeeUpdate(c, fee_id, data, 404)
     ELSE /\ fee_structures' =
               [fee_structures EXCEPT
                  ![fee_id] = AssignedBeforeDueDate(fee_structures[fee_id], data)]
          /\ last' = AnsweredFeeUpdate(c, fee_id, data,
                       IF "due_date" \in data.keys /\ data.due_date = Malformed
                         THEN 500 ELSE 200)

\* an update that carries the new amount into the invoices of the fee structure
UpdateFeeStructureRepricing(c, fee_id, data) ==
  /\ UNCHANGED school
  /\ UNCHANGED <<payments, pc, req, credited>>
  /\ IF ~RoleAllowed(c, {"admin", "staff"})
       THEN /\ UNCHANGED <<fee_structures, invoices>>
            /\ last' = AnsweredFeeUpdate(c, fee_id, data, 403)
     ELSE IF fee_id \notin DOMAIN fee_structures
       THEN /\ UNCHANGED <<fee_structures, invoices>>
            /\ last' = AnsweredFeeUpdate(c, fee_id, data, 404)
     ELSE IF "due_date" \in data.keys /\ data.due_date = Malformed
       THEN /\ UNCHANGED <<fee_structures, invoices>>
            /\ last' = AnsweredFeeUpdate(c, fee_id, data, 500)
     ELSE /\ fee_structures' =
               [fee_structures EXCEPT
                  ![fee_id] = AssignedBeforeDueDate(fee_structures[fee_id], data)]
          /\ invoices' =
               [i \in DOMAIN invoices |->
                  IF invoices[i].fee_id = fee_id /\ "amount" \in data.keys
                    THEN [invoices[i] EXCEPT
                            !.amount = data.amount,
                            !.total_amount = data.amount - invoices[i].discount]
                    ELSE invoices[i]]
          /\ last' = AnsweredFeeUpdate(c, fee_id, data, 200)

\* the whole handler: the assignments reach the table at db.session.commit();
\* an exception before it or in it ends in db.session.rollback()
UpdateFeeStructure(c, fee_id, data) ==
  /\ UNCHANGED school
  /\ UNCHANGED <<invoices, payments, pc, req, credited>>
  /\ IF ~RoleAllowed(c, {"admin", "staff"})
       THEN /\ UNCHANGED fee_structures
            /\ last' = AnsweredFeeUpdate(c, fee_id, data, 403)
     ELSE IF fee_id \notin DOMAIN fee_structures
       THEN /\ UNCHANGED fee_structures
            /\ last' = AnsweredFeeUpdate(c, fee_id, data, 404)
     ELSE IF "due_date" \in data.keys /\ data.due_date = Malformed
       THEN /\ UNCHANGED fee_structures
            /\ last' = AnsweredFeeUpdate(c, fee_id, data, 500)
     ELSE \/ /\ fee_structures' =
                  [fee_structures EXCEPT
                     ![fee_id] = AssignedBeforeDueDate(fee_structures[fee_id], data)]
             /\ last' = AnsweredFeeUpdate(c, fee_id, data, 200)
          \/ /\ UNCHANGED fee_structures
             /\ last' = AnsweredFeeUpdate(c, fee_id, data, 500)

----------------------------------------------------------------------------
(* GET /invoices/<invoice_id> and GET /invoices: get_invoice, get_invoices *)

\* the callers of the read routes: those of the ledger, a student user without
\* a students row, a staff member and a parent
ReadCallers ==
  Callers \cup { [user_id |-> 13, role_type |-> "student"],
                 [user_id |-> 22, role_type |-> "staff"],
                 [user_id |-> 24, role_type |-> "parent"] }

\* invoice.to_dict(): the row with its balance embedded
InvoiceToDict(invs, pays, id) ==
  [ invoice_id   |-> id,
    student_id   |-> invs[id].student_id,
    total_amount |-> invs[id].total_amount,
    status       |-> invs[id].status,
    balance      |-> CalculateBalance(invs, pays, id) ]

\* a permission check of get_invoice that lets every student read
InvoiceReadableAnyStudent(c, invoice) ==
  c.role_type \in {"student", "admin", "staff"}

\* the permission check of get_invoice on a resolved invoice
InvoiceReadable(c, invoice) ==
  IF c.role_type = "student"
    THEN LET student == StudentByUser(c.user_id)
         IN  /\ student # {}
             /\ \E s \in student : s.student_id = invoice.student_id
    ELSE c.role_type \in {"admin", "staff"}

\* the status code get_invoice answers with
GetInvoiceCode(invs, c, invoice_id) ==
  IF invoice_id \notin DOMAIN invs THEN 404
  ELSE IF ~InvoiceReadable(c, invs[invoice_id]) THEN 403
  ELSE 200

\* a get_invoice that marks the invoice it shows as Overdue
GetInvoiceMarkingOverdue(c, invoice_id) ==
  /\ UNCHANGED school
  /\ UNCHANGED <<payments, pc, req, credited, fee_structures>>
  /\ invoices' = IF invoice_id \in DOMAIN invoices
                   THEN [invoices EXCEPT ![invoice_id].status = "Overdue"]
                   ELSE invoices
  /\ LET code == GetInvoiceCode(invoices, c, invoice_id)
     IN  last' = IF code = 200
                   THEN [op |-> "get_invoice", caller |-> c,
                         invoice_id |-> invoice_id, code |-> code,
                         invoice |-> InvoiceToDict(invoices, payments, invoice_id)]
                   ELSE [op |-> "get_invoice", caller |-> c,
                         invoice_id |-> invoice_id, code |-> code]

\* the whole handler
GetInvoice(c, invoice_id) ==
  /\ UNCHANGED school
  /\ UNCHANGED <<invoices, payments, pc, req, credited, fee_structures>>
  /\ LET code == GetInvoiceCode(invoices, c, invoice_id)
     IN  last' = IF code = 200
                   THEN [op |-> "get_invoice", caller |-> c,
                         invoice_id |-> invoice_id, code |-> code,
                         invoice |-> InvoiceToDict(invoices, payments, invoice_id)]
                   ELSE [op |-> "get_invoice", caller |-> c,
                         invoice_id |-> invoice_id, code |-> code]

\* the student_id values of the query string of GET /invoices: 0 when the
\* request carries none
StudentIdFilters == {0, 1, 2}

\* a listing that applies the student_id of the query string for every role
ListedInvoicesByFilter(invs, c, student_id) ==
  { i \in DOMAIN invs : student_id = 0 \/ invs[i].student_id = student_id }

\* the invoice_ids of the rows the query of get_invoices selects for a caller
\* that is let through
ListedInvoices(invs, c, student_id) ==
  IF c.role_type = "student"
    THEN { i \in DOMAIN invs :
             \E s \in StudentByUser(c.user_id) : invs[i].student_id = s.student_id }
    ELSE IF student_id # 0
      THEN { i \in DOMAIN invs : invs[i].student_id = student_id }
      ELSE DOMAIN invs

\* the status code get_invoices answers with
GetInvoicesCode(c) ==
  IF c.role_type = "student"
    THEN IF StudentByUser(c.user_id) = {} THEN 404 ELSE 200
    ELSE IF c.role_type = "parent" THEN 403
    ELSE IF c.role_type \notin {"admin", "staff"} THEN 403
    ELSE 200

\* the whole handler: no status filter, the first page
GetInvoices(c, student_id) ==
  /\ UNCHANGED school
  /\ UNCHANGED <<invoices, payments, pc, req, credited, fee_structures>>
  /\ last' = IF GetInvoicesCode(c) = 200
               THEN [op |-> "get_invoices", caller |-> c, student_id |-> student_id,
                     code |-> 200,
                     invoices |-> ListedInvoices(invoices, c, student_id)]
               ELSE [op |-> "get_invoices", caller |-> c, student_id |-> student_id,
                     code |-> GetInvoicesCode(c)]

----------------------------------------------------------------------------
(* GET /reports/outstanding and GET /reports/summary *)

\* date.today() on the day of a report, counted in days like due_date
Todays == {2, 3}

\* the statuses both reports select
OpenStatuses == {"Pending", "Partial", "Overdue"}

\* Invoice.total_amount - coalesce(sum of the Completed payments, 0)
OutstandingAmount(invs, pays, id) ==
  invs[id].total_amount - SumCompleted(pays, id)

\* invoice_data['days_overdue']
DaysOverdue(due_date, today) ==
  IF due_date < today THEN today - due_date ELSE 0

\* the orders in which a SELECT without ORDER BY may return the rows ids
Orderings(ids) ==
  { order \in [1..Cardinality(ids) -> ids] :
      \A j, k \in 1..Cardinality(ids) : j # k => order[j] # order[k] }

\* the loop over the rows: those with an outstanding amount, annotated
OutstandingRows(invs, pays, order, today) ==
  LET Owing(id) == OutstandingAmount(invs, pays, id) > 0
      owing == SelectSeq(order, Owing)
  IN  [ j \in 1..Len(owing) |->
          [ invoice_id         |-> owing[j],
            outstanding_amount |-> OutstandingAmount(invs, pays, owing[j]),
            days_overdue       |-> DaysOverdue(invs[owing[j]].due_date, today) ] ]

\* one step of the sort: row goes behind the rows that are not less overdue
InsertRow(sorted, row) ==
  LET n == Cardinality({ j \in 1..Len(sorted) :
                           sorted[j].days_overdue >= row.days_overdue })
  IN  SubSeq(sorted, 1, n) \o <<row>> \o SubSeq(sorted, n + 1, Len(sorted))

RECURSIVE SortByDaysOverdue(_)
\* result.sort(key=days_overdue, reverse=True): stable, rows that are equally
\* overdue keep the order they came in
SortByDaysOverdue(rows) ==
  IF rows = << >> THEN << >>
  ELSE InsertRow(SortByDaysOverdue(SubSeq(rows, 1, Len(rows) - 1)),
                 rows[Len(rows)])

\* a report that stores Overdue on the open invoices whose due date has passed
GetOutstandingReportMarkingOverdue(c, today) ==
  /\ UNCHANGED school
  /\ UNCHANGED <<payments, pc, req, credited, fee_structures>>
  /\ IF ~RoleAllowed(c, {"admin", "staff"})
       THEN /\ UNCHANGED invoices
            /\ last' = [op |-> "outstanding_report", caller |-> c,
                        today |-> today, code |-> 403]
       ELSE /\ invoices' =
                 [i \in DOMAIN invoices |->
                    IF /\ invoices[i].status \in OpenStatuses
                       /\ invoices[i].due_date < today
                      THEN [invoices[i] EXCEPT !.status = "Overdue"]
                      ELSE invoices[i]]
            /\ \E order \in Orderings({ i \in DOMAIN invoices :
                                          invoices[i].status \in OpenStatuses }) :
                 last' = [op |-> "outstanding_report", caller |-> c,
                          today |-> today, code |-> 200,
                          outstanding_invoices |->
                            SortByDaysOverdue(
                              OutstandingRows(invoices, payments, order, today))]

\* the whole handler
GetOutstandingReport(c, today) ==
  /\ UNCHANGED school
  /\ UNCHANGED <<invoices, payments, pc, req, credited, fee_structures>>
  /\ IF ~RoleAllowed(c, {"admin", "staff"})
       THEN last' = [op |-> "outstanding_report", caller |-> c, today |-> today,
                     code |-> 403]
       ELSE \E order \in Orderings({ i \in DOMAIN invoices :
                                       invoices[i].status \in OpenStatuses }) :
              last' = [op |-> "outstanding_report", caller |-> c, today |-> today,
                       code |-> 200,
                       outstanding_invoices |->
                         SortByDaysOverdue(
                           OutstandingRows(invoices, payments, order, today))]

RECURSIVE TotalCollected(_)
\* sum(Payment.amount) over the Completed payments
TotalCollected(pays) ==
  IF pays = << >> THEN 0
  ELSE (IF Head(pays).status = "Completed" THEN Head(pays).amount ELSE 0)
       + TotalCollected(Tail(pays))

RECURSIVE OutstandingUpTo(_, _, _)
\* the outstanding amounts of the first n invoices that have an open status
OutstandingUpTo(invs, pays, n) ==
  IF n = 0 THEN 0
  ELSE (IF invs[n].status \in OpenStatuses
          THEN OutstandingAmount(invs, pays, n) ELSE 0)
       + OutstandingUpTo(invs, pays, n - 1)

\* the whole handler: no date range; amounts are whole units, which float()
\* renders exactly
GetFinancialSummary(c) ==
  /\ UNCHANGED school
  /\ UNCHANGED <<invoices, payments, pc, req, credited, fee_structures>>
  /\ last' = IF ~RoleAllowed(c, {"admin", "staff"})
               THEN [op |-> "summary", caller |-> c, code |-> 403]
               ELSE [op |-> "summary", caller |-> c, code |-> 200,
                     total_collected |-> TotalCollected(payments),
                     outstanding_balance |->
                       OutstandingUpTo(invoices, payments, Len(invoices))]

----------------------------------------------------------------------------
(* POST /library/books, /library/issue-book, /library/return-book/<id> *)

\* bodies of POST /library/books: school_id, title and author are always
\* given; keys tells whether total_copies is given, and it is 0, 2 or -1
BookData == [ keys : SUBSET {"total_copies"}, total_copies : {0, 2, -1} ]

\* data.get('total_copies', 1)
TotalCopies(data) ==
  IF "total_copies" \in data.keys THEN data.total_copies ELSE 1

\* LibraryBook(...) as add_library_book builds it
NewBook(data) ==
  [ total_copies     |-> TotalCopies(data),
    available_copies |-> TotalCopies(data) ]

\* the whole handler
AddLibraryBook(c, data) ==
  /\ UNCHANGED <<invoices, payments, pc, req, credited, fee_structures>>
  /\ UNCHANGED <<transactions, enrollments, academic_years, attendance>>
  /\ IF ~RoleAllowed(c, {"admin", "staff"})
       THEN /\ UNCHANGED books
            /\ last' = [op |-> "add_library_book", caller |-> c, code |-> 403]
       ELSE /\ Len(books) < MaxBooks
            /\ \/ /\ books' = Append(books, NewBook(data))
                  /\ last' = [op |-> "add_library_book", caller |-> c, code |-> 201]
               \/ /\ UNCHANGED books
                  /\ last' = [op |-> "add_library_book", caller |-> c, code |-> 500]

\* bodies of POST /library/issue-book: the due_date is missing (0) or a day
IssueData ==
  [ book_id    : 1..(MaxBooks + 1),
    student_id : {1},
    due_date   : {0, 2, 3} ]

AnsweredIssue(c, data, code) ==
  [op |-> "issue_book", caller |-> c, book_id |-> data.book_id, code |-> code]

AnsweredReturn(c, transaction_id, code) ==
  [op |-> "return_book", caller |-> c, transaction_id |-> transaction_id,
   code |-> code]

\* the Issued transactions of a student that are past their due_date
OverdueBooks(trans, student_id, today) ==
  Cardinality({ t \in DOMAIN trans :
                  /\ trans[t].student_id = student_id
                  /\ trans[t].status = "Issued"
                  /\ trans[t].due_date < today })

\* book.available_copies <= 0
NotAvailable(book) == book.available_copies <= 0

\* role_required, the required fields, the book and its availability, the
\* overdue books of the student: the status code of an early return, 0 when
\* there is none
IssueEarlyReturn(c, data, today) ==
  IF ~RoleAllowed(c, {"admin", "staff"}) THEN 403
  ELSE IF data.due_date = 0 THEN 400
  ELSE IF data.book_id \notin DOMAIN books THEN 404
  ELSE IF NotAvailable(books[data.book_id]) THEN 400
  ELSE IF OverdueBooks(transactions, data.student_id, today) > 0 THEN 400
  ELSE 0

\* BookTransaction(...) as issue_book builds it
NewTransaction(data) ==
  [ book_id    |-> data.book_id,
    student_id |-> data.student_id,
    due_date   |-> data.due_date,
    status     |-> "Issued" ]

\* the handler up to the checks: the book is loaded into the session
IssueBegin(w, c, data, today) ==
  /\ pc[w] = "idle"
  /\ UNCHANGED <<invoices, payments, credited, fee_structures>>
  /\ UNCHANGED school
  /\ IF IssueEarlyReturn(c, data, today) # 0
       THEN /\ Return(w)
            /\ last' = AnsweredIssue(c, data, IssueEarlyReturn(c, data, today))
       ELSE /\ Len(transactions) < MaxTransactions
            /\ pc' = [pc EXCEPT ![w] = "issue_loaded"]
            /\ req' = [req EXCEPT ![w] =
                         [op |-> "issue_book", caller |-> c, data |-> data,
                          book |-> books[data.book_id]]]
            /\ UNCHANGED last

\* book.available_copies -= 1 on the loaded book, the INSERT of the
\* transaction, db.session.commit(), 201
IssueCommit(w) ==
  /\ pc[w] = "issue_loaded"
  /\ Len(transactions) < MaxTransactions
  /\ UNCHANGED <<invoices, payments, credited, fee_structures>>
  /\ UNCHANGED <<enrollments, academic_years, attendance>>
  /\ books' = [books EXCEPT ![req[w].data.book_id].available_copies =
                               req[w].book.available_copies - 1]
  /\ transactions' = Append(transactions, NewTransaction(req[w].data))
  /\ Return(w)
  /\ last' = AnsweredIssue(req[w].caller, req[w].data, 201)

\* the commit raises: db.session.rollback(), 500
IssueFail(w) ==
  /\ pc[w] = "issue_loaded"
  /\ UNCHANGED <<invoices, payments, credited, fee_structures>>
  /\ UNCHANGED school
  /\ Return(w)
  /\ last' = AnsweredIssue(req[w].caller, req[w].data, 500)

\* role_required, the transaction and its status
ReturnEarlyReturn(c, transaction_id) ==
  IF ~RoleAllowed(c, {"admin", "staff"}) THEN 403
  ELSE IF transaction_id \notin DOMAIN transactions THEN 404
  ELSE IF transactions[transaction_id].status # "Issued" THEN 400
  ELSE 0

\* the handler up to the checks: the transaction and its book are loaded
ReturnBegin(w, c, transaction_id) ==
  /\ pc[w] = "idle"
  /\ UNCHANGED <<invoices, payments, credited, fee_structures>>
  /\ UNCHANGED school
  /\ IF ReturnEarlyReturn(c, transaction_id) # 0
       THEN /\ Return(w)
            /\ last' = AnsweredReturn(c, transaction_id,
                                      ReturnEarlyReturn(c, transaction_id))
       ELSE /\ pc' = [pc EXCEPT ![w] = "return_loaded"]
            /\ req' = [req EXCEPT ![w] =
                         [op |-> "return_book", caller |-> c,
                          transaction_id |-> transaction_id,
                          book |-> books[transactions[transaction_id].book_id]]]
            /\ UNCHANGED last

\* transaction.status = 'Returned', book.available_copies += 1 on the loaded
\* book, db.session.commit(), 200
ReturnCommit(w) ==
  /\ pc[w] = "return_loaded"
  /\ UNCHANGED <<invoices, payments, credited, fee_structures>>
  /\ UNCHANGED <<enrollments, academic_years, attendance>>
  /\ transactions' =
       [transactions EXCEPT ![req[w].transaction_id].status = "Returned"]
  /\ books' =
       [books EXCEPT ![transactions[req[w].transaction_id].book_id].available_copies =
                        req[w].book.available_copies + 1]
  /\ Return(w)
  /\ last' = AnsweredReturn(req[w].caller, req[w].transaction_id, 200)

\* the commit raises: db.session.rollback(), 500
ReturnFail(w) ==
  /\ pc[w] = "return_loaded"
  /\ UNCHANGED <<invoices, payments, credited, fee_structures>>
  /\ UNCHANGED school
  /\ Return(w)
  /\ last' = AnsweredReturn(req[w].caller, req[w].transaction_id, 500)

----------------------------------------------------------------------------
(* POST /enrollments *)

\* the classes table, which these routes only read: class 1 has a capacity
\* and is taught by teacher 1, class 2 has no capacity and no teacher
Classes ==
  << [capacity |-> 2, teacher_id |-> 1],
     [capacity |-> 0, teacher_id |-> 0] >>

\* bodies of POST /enrollments: a field that is 0 is not given; keys tells
\* whether status is given
EnrollData ==
  [ student_id : 0..2,
    class_id   : DOMAIN Classes,
    year_id    : {1, 2},
    keys       : SUBSET {"status"},
    status     : {"Dropped"} ]

AnsweredEnrollment(c, data, code, error) ==
  [op |-> "create_enrollment", caller |-> c, data |-> data, code |-> code,
   error |-> error]

\* Enrollment.query.filter_by(student_id, class_id, year_id,
\* status='Active').first() finds a row
ExistingEnrollment(rows, data) ==
  \E e \in DOMAIN rows :
    /\ rows[e].student_id = data.student_id
    /\ rows[e].class_id = data.class_id
    /\ rows[e].year_id = data.year_id
    /\ rows[e].status = "Active"

\* Enrollment.query.filter_by(class_id, status='Active').count()
CurrentEnrollmentCount(rows, class_id) ==
  Cardinality({ e \in DOMAIN rows :
                  rows[e].class_id = class_id /\ rows[e].status = "Active" })

\* a capacity check that lets one more student in
AtFullCapacityOffByOne(rows, class_id) ==
  /\ class_id \in DOMAIN Classes
  /\ Classes[class_id].capacity # 0
  /\ CurrentEnrollmentCount(rows, class_id) > Classes[class_id].capacity

\* class_obj and class_obj.capacity and
\* current_enrollment_count >= class_obj.capacity
AtFullCapacity(rows, class_id) ==
  /\ class_id \in DOMAIN Classes
  /\ Classes[class_id].capacity # 0
  /\ CurrentEnrollmentCount(rows, class_id) >= Classes[class_id].capacity

\* Enrollment(...) as create_enrollment builds it
NewEnrollment(data) ==
  [ student_id |-> data.student_id,
    class_id   |-> data.class_id,
    year_id    |-> data.year_id,
    status     |-> IF "status" \in data.keys THEN data.status ELSE "Active" ]

\* the whole handler
CreateEnrollment(c, data) ==
  /\ UNCHANGED <<invoices, payments, pc, req, credited, fee_structures>>
  /\ UNCHANGED <<books, transactions, academic_years, attendance>>
  /\ IF ~RoleAllowed(c, {"admin", "staff"})
       THEN /\ UNCHANGED enrollments
            /\ last' = AnsweredEnrollment(c, data, 403, "")
     ELSE IF data.student_id = 0
       THEN /\ UNCHANGED enrollments
            /\ last' = AnsweredEnrollment(c, data, 400, "student_id is required")
     ELSE IF ExistingEnrollment(enrollments, data)
       THEN /\ UNCHANGED enrollments
            /\ last' = AnsweredEnrollment(c, data, 409,
                                          "Student already enrolled in this class")
     ELSE IF AtFullCapacity(enrollments, data.class_id)
       THEN /\ UNCHANGED enrollments
            /\ last' = AnsweredEnrollment(c, data, 400, "Class is at full capacity")
     ELSE /\ Len(enrollments) < MaxEnrollments
          /\ \/ /\ enrollments' = Append(enrollments, NewEnrollment(data))
                /\ last' = AnsweredEnrollment(c, data, 201, "")
             \/ /\ UNCHANGED enrollments
                /\ last' = AnsweredEnrollment(c, data, 500, "")

----------------------------------------------------------------------------
(* POST /academic-years *)

Schools == {1, 2}

\* bodies of POST /academic-years: a school_id of 0 is not given; year_name
\* and end_date are always given; start_date may fail to parse
YearData ==
  [ school_id  : {0} \cup Schools,
    is_current : BOOLEAN,
    start_date : {"2026-01-01", Malformed} ]

AnsweredYear(c, data, code) ==
  [op |-> "create_academic_year", caller |-> c, data |-> data, code |-> code]

\* an UPDATE that is left out
UnsetCurrentNowhere(rows, school_id) == rows

\* AcademicYear.query.filter_by(school_id, is_current=True)
\*   .update({'is_current': False})
UnsetCurrent(rows, school_id) ==
  [ y \in DOMAIN rows |->
      IF rows[y].school_id = school_id /\ rows[y].is_current
        THEN [rows[y] EXCEPT !.is_current = FALSE]
        ELSE rows[y] ]

\* AcademicYear(...) as create_academic_year builds it
NewAcademicYear(data) ==
  [ school_id  |-> data.school_id,
    start_date |-> data.start_date,
    is_current |-> data.is_current ]

\* the whole handler; an exception after the UPDATE rolls the UPDATE back
CreateAcademicYear(c, data) ==
  /\ UNCHANGED <<invoices, payments, pc, req, credited, fee_structures>>
  /\ UNCHANGED <<books, transactions, enrollments, attendance>>
  /\ IF ~RoleAllowed(c, {"admin", "staff"})
       THEN /\ UNCHANGED academic_years
            /\ last' = AnsweredYear(c, data, 403)
     ELSE IF data.school_id = 0
       THEN /\ UNCHANGED academic_years
            /\ last' = AnsweredYear(c, data, 400)
     ELSE IF data.start_date = Malformed
       THEN /\ UNCHANGED academic_years
            /\ last' = AnsweredYear(c, data, 500)
     ELSE /\ Len(academic_years) < MaxYears
          /\ \/ /\ academic_years' =
                     Append(IF data.is_current
                              THEN UnsetCurrent(academic_years, data.school_id)
                              ELSE academic_years,
                            NewAcademicYear(data))
                /\ last' = AnsweredYear(c, data, 201)
             \/ /\ UNCHANGED academic_years
                /\ last' = AnsweredYear(c, data, 500)

----------------------------------------------------------------------------
(* POST /teachers/<teacher_id>/attendance *)

\* the teachers table, which this route only reads: user 23 is teacher 1
TeacherByUser(u) == IF u = 23 THEN {1} ELSE {}

AttendanceCallers ==
  { c \in Callers : c.user_id \in {11, 21, 23} }

TeacherIds == {1, 2}

\* the entries of attendance_records: student_id, status and remarks
RecordData ==
  [ student_id : {1, 2}, status : {"Present"}, remarks : {""} ]
    \cup [ student_id : {1}, status : {"Absent"}, remarks : {"", "sick"} ]

\* bodies of the request: a class_id of 0 is not given; attendance_records
\* has up to MaxRecords entries, none of them counts as not given
AttendanceData ==
  [ class_id           : {0} \cup {1},
    attendance_date    : {"2026-01-05", "2026-01-06", Malformed},
    attendance_records : UNION { [1..n -> RecordData] : n \in 0..MaxRecords } ]

AnsweredAttendance(c, teacher_id, data, code) ==
  [op |-> "record_attendance", caller |-> c, teacher_id |-> teacher_id,
   records |-> Len(data.attendance_records), code |-> code]

\* the permission check, the required fields, the class of the teacher:
\* the status code of an early return, 0 when there is none
AttendanceEarlyReturn(c, teacher_id, data) ==
  IF c.role_type = "teacher" /\ teacher_id \notin TeacherByUser(c.user_id)
    THEN 403
  ELSE IF c.role_type \notin {"teacher", "admin", "staff"} THEN 403
  ELSE IF data.class_id = 0 \/ data.attendance_records = << >> THEN 400
  ELSE IF \/ data.class_id \notin DOMAIN Classes
          \/ Classes[data.class_id].teacher_id # teacher_id THEN 403
  ELSE 0

\* AttendanceRecord.query.filter_by(student_id, class_id, attendance_date):
\* the matching rows
ExistingRecords(rows, student_id, class_id, attendance_date) ==
  { r \in DOMAIN rows :
      /\ rows[r].student_id = student_id
      /\ rows[r].class_id = class_id
      /\ rows[r].attendance_date = attendance_date }

\* AttendanceRecord(...) as record_attendance builds it
NewAttendanceRecord(record_data, class_id, attendance_date, user_id) ==
  [ student_id      |-> record_data.student_id,
    class_id        |-> class_id,
    attendance_date |-> attendance_date,
    status          |-> record_data.status,
    remarks         |-> record_data.remarks,
    recorded_by     |-> user_id ]

\* a loop body that always inserts
UpsertAlwaysInsert(rows, record_data, class_id, attendance_date, user_id) ==
  Append(rows, NewAttendanceRecord(record_data, class_id, attendance_date,
                                   user_id))

\* the body of the loop: the first matching row is updated, or a row is
\* added; the query sees the rows added earlier in the same request
Upsert(rows, record_data, class_id, attendance_date, user_id) ==
  LET existing == ExistingRecords(rows, record_data.student_id, class_id,
                                  attendance_date)
  IN IF existing # {}
       THEN LET r == CHOOSE x \in existing : \A y \in existing : x <= y
            IN [rows EXCEPT ![r].status = record_data.status,
                            ![r].remarks = record_data.remarks,
                            ![r].recorded_by = user_id]
       ELSE Append(rows, NewAttendanceRecord(record_data, class_id,
                                             attendance_date, user_id))

\* the loop over data['attendance_records'], from entry k on
RECURSIVE ProcessRecords(_, _, _, _)
ProcessRecords(rows, data, user_id, k) ==
  IF k > Len(data.attendance_records) THEN rows
  ELSE ProcessRecords(Upsert(rows, data.attendance_records[k], data.class_id,
                             data.attendance_date, user_id),
                      data, user_id, k + 1)

\* the stored records after a call that is answered 201, and the records as
\* they were after a call that is refused or fails on the date
Recorded(rows, c, teacher_id, data) ==
  IF AttendanceEarlyReturn(c, teacher_id, data) # 0 THEN rows
  ELSE IF data.attendance_date = Malformed THEN rows
  ELSE ProcessRecords(rows, data, c.user_id, 1)

\* the whole handler
RecordAttendance(c, teacher_id, data) ==
  /\ UNCHANGED <<invoices, payments, pc, req, credited, fee_structures>>
  /\ UNCHANGED <<books, transactions, enrollments, academic_years>>
  /\ IF AttendanceEarlyReturn(c, teacher_id, data) # 0
       THEN /\ UNCHANGED attendance
            /\ last' = AnsweredAttendance(c, teacher_id, data,
                         AttendanceEarlyReturn(c, teacher_id, data))
     ELSE IF data.attendance_date = Malformed
       THEN /\ UNCHANGED attendance
            /\ last' = AnsweredAttendance(c, teacher_id, data, 500)
     ELSE /\ Len(Recorded(attendance, c, teacher_id, data)) <= MaxAttendance
          /\ \/ /\ attendance' = Recorded(attendance, c, teacher_id, data)
                /\ last' = AnsweredAttendance(c, teacher_id, data, 201)
             \/ /\ UNCHANGED attendance
                /\ last' = AnsweredAttendance(c, teacher_id, data, 500)

----------------------------------------------------------------------------
(* Request-per-call: the calls are served one after the other *)
Next ==
  \/ \E c \in Callers, data \in InvoiceData : CreateInvoice(c, data)
  \/ \E c \in Callers, data \in PaymentData : CreatePayment(c, data)

Spec == Init /\ [][Next]_vars

(* The workers serve their calls concurrently, interleaved at the reads and *)
(* the commits of the store                                                 *)
ConcNext ==
  \/ \E w \in Workers, c \in ConcCallers, data \in ConcInvoiceData :
        InvoiceBegin(w, c, data)
  \/ \E w \in Workers : InvoiceCommit(w)
  \/ \E w \in Workers : InvoiceFail(w)
  \/ \E w \in Workers, c \in ConcCallers, data \in ConcPaymentData :
        PaymentBegin(w, c, data)
  \/ \E w \in Workers : PaymentBalance(w)
  \/ \E w \in Workers : PaymentCommit(w)
  \/ \E w \in Workers : PaymentFail(w)

ConcSpec == Init /\ [][ConcNext]_vars

(* The ledger is written by an admin and read by every caller, the calls   *)
(* served one after the other                                               *)
ReadInvoiceData ==
  [ student_id : {1, 2},
    amount     : {MaxAmount},
    discount   : {0},
    due_date   : {1, 2},
    fee_id     : {1} ]

ReadPaymentData ==
  [ invoice_id : 1..MaxInvoices,
    amount     : 1..MaxAmount,
    status     : {Absent, "Pending"} ]

ReadNext ==
  \/ \E c \in ConcCallers, data \in ReadInvoiceData : CreateInvoice(c, data)
  \/ \E c \in ConcCallers, data \in ReadPaymentData : CreatePayment(c, data)
  \/ \E c \in ReadCallers, invoice_id \in 1..(MaxInvoices + 1) :
        GetInvoice(c, invoice_id)
  \/ \E c \in ReadCallers, student_id \in StudentIdFilters :
        GetInvoices(c, student_id)
  \/ \E c \in ReadCallers, today \in Todays : GetOutstandingReport(c, today)
  \/ \E c \in ReadCallers : GetFinancialSummary(c)

ReadSpec == Init /\ [][ReadNext]_vars

(* The writing calls of the ledger, by an admin and by a teacher, served   *)
(* one after the other                                                      *)
FeeCallers == { c \in Callers : c.role_type \in {"admin", "teacher"} }

FeeNext ==
  \/ \E c \in FeeCallers, data \in ConcInvoiceData : CreateInvoice(c, data)
  \/ \E c \in FeeCallers, data \in PaymentData : CreatePayment(c, data)
  \/ \E c \in FeeCallers, data \in FeeData : CreateFeeStructure(c, data)
  \/ \E c \in FeeCallers, fee_id \in 1..(MaxFees + 1), data \in FeeUpdateData :
        UpdateFeeStructure(c, fee_id, data)

FeeSpec == Init /\ [][FeeNext]_vars

(* Invoices for students and fee structures that exist or not, by an admin, *)
(* the calls served one after the other                                     *)
RefInvoiceData ==
  [ student_id : {1, 3},
    amount     : {MaxAmount},
    discount   : {0},
    due_date   : {1},
    fee_id     : {1, 2} ]

RefNext ==
  \/ \E c \in ConcCallers, data \in FeeData : CreateFeeStructure(c, data)
  \/ \E c \in ConcCallers, data \in RefInvoiceData : CreateInvoice(c, data)

RefSpec == Init /\ [][RefNext]_vars

(* The library, served by the workers concurrently *)
LibraryNext ==
  \/ \E c \in FeeCallers, data \in BookData : AddLibraryBook(c, data)
  \/ \E w \in Workers, c \in FeeCallers, data \in IssueData, today \in Todays :
        IssueBegin(w, c, data, today)
  \/ \E w \in Workers : IssueCommit(w)
  \/ \E w \in Workers : IssueFail(w)
  \/ \E w \in Workers, c \in FeeCallers,
        transaction_id \in 1..(MaxTransactions + 1) :
        ReturnBegin(w, c, transaction_id)
  \/ \E w \in Workers : ReturnCommit(w)
  \/ \E w \in Workers : ReturnFail(w)

LibrarySpec == Init /\ [][LibraryNext]_vars

(* Enrollments, the calls served one after the other *)
EnrollNext ==
  \E c \in FeeCallers, data \in EnrollData : CreateEnrollment(c, data)

EnrollSpec == Init /\ [][EnrollNext]_vars

(* Academic years, the calls served one after the other *)
YearNext ==
  \E c \in FeeCallers, data \in YearData : CreateAcademicYear(c, data)

YearSpec == Init /\ [][YearNext]_vars

(* Attendance, the calls served one after the other *)
AttendanceNext ==
  \E c \in AttendanceCallers, teacher_id \in TeacherIds, data \in AttendanceData :
     RecordAttendance(c, teacher_id, data)

AttendanceSpec == Init /\ [][AttendanceNext]_vars

----------------------------------------------------------------------------
(* Properties of the ledger *)

Balance(i) == CalculateBalance(invoices, payments, i)

\* C1: after every payment-creation call, accepted or rejected, the balance of
\* every invoice is its total_amount minus the amounts of the payments that
\* were acknowledged for it as Completed; a payment recorded as Failed or
\* Pending takes nothing off it.
C1_BalanceIsTotalMinusCompleted ==
  \A i \in DOMAIN invoices :
    Balance(i) = invoices[i].total_amount - credited[i]

\* an accepted payment that is not Completed lies beside a Completed one
C1_Witness ==
  /\ last.op = "create_payment" /\ last.code = 201
  /\ \E j, k \in DOMAIN payments :
       /\ payments[j].invoice_id = last.invoice_id
       /\ payments[k].invoice_id = last.invoice_id
       /\ payments[j].status = "Completed"
       /\ payments[k].status \in {"Failed", "Pending"}

C3_NoOverpayment ==
  \A i \in DOMAIN invoices :
    SumCompleted(payments, i) <= invoices[i].total_amount

\* C4: after an accepted payment, the invoice is Paid when its balance is 0
\* and Partial when its balance lies strictly between 0 and total_amount.
C4_StatusAfterPayment ==
  (last.op = "create_payment" /\ last.code = 201) =>
    LET i == last.invoice_id
    IN  /\ (Balance(i) = 0 => invoices[i].status = "Paid")
        /\ (0 < Balance(i) /\ Balance(i) < invoices[i].total_amount
              => invoices[i].status = "Partial")

\* C5: the stored status is the one total_amount and the Completed payments
\* determine: Paid iff balance <= 0, Partial iff 0 < balance < total_amount.
\* Stated for the invoices of positive total_amount, whose balance only
\* payments bring down.
C5_StatusDeterminedByBalance ==
  \A i \in DOMAIN invoices :
    invoices[i].total_amount > 0 =>
      /\ (invoices[i].status = "Paid" <=> Balance(i) <= 0)
      /\ (invoices[i].status = "Partial"
            <=> (0 < Balance(i) /\ Balance(i) < invoices[i].total_amount))

C7_DiscountOverAmountRejected ==
  /\ \A i \in DOMAIN invoices :
       /\ invoices[i].total_amount = invoices[i].amount - invoices[i].discount
       /\ invoices[i].total_amount >= 0
  /\ (last.op = "create_invoice" /\ last.discount > last.amount)
       => last.code \in {400, 403}

\* C8: once payments have brought the balance of an invoice to 0, the invoice
\* is Paid and stays Paid with balance 0, and no payment is added to it.
C8_PaidInvoiceStaysPaid ==
  [][ \A i \in DOMAIN invoices :
        (SumCompleted(payments, i) > 0 /\ Balance(i) = 0)
          => ( /\ invoices[i].status = "Paid"
               /\ invoices'[i].status = "Paid"
               /\ CalculateBalance(invoices', payments', i) = 0
               /\ \A k \in DOMAIN payments' :
                    payments'[k].invoice_id = i => k \in DOMAIN payments ) ]_vars

\* C9: the store never changes by a payment row without the status the same
\* handler assigned to the invoice, nor by a status without its payment row:
\* each step that adds a payment is the commit of one worker, adds exactly
\* the payment that worker built and writes the status it assigned, and each
\* step that changes a stored status adds a payment to that invoice.
C9_PaymentAndStatusAtomic ==
  [][ /\ ( payments' # payments =>
             \E w \in Workers :
               /\ pc[w] = "payment_checked"
               /\ payments' = Append(payments, NewPayment(req[w].data, req[w].invoice))
               /\ invoices'[req[w].data.invoice_id].status =
                    LET status == NewStatus(req[w].invoice.status,
                                            req[w].outstanding_balance,
                                            req[w].data.amount)
                    IN  IF status = req[w].invoice.status
                          THEN invoices[req[w].data.invoice_id].status
                          ELSE status )
      /\ \A i \in DOMAIN invoices :
           invoices'[i].status # invoices[i].status =>
             /\ Len(payments') = Len(payments) + 1
             /\ payments'[Len(payments')].invoice_id = i ]_vars

\* a payment was committed with its status while another worker stands
\* between its balance check and its commit
C9_Witness ==
  /\ last.op = "create_payment" /\ last.code = 201
  /\ invoices[last.invoice_id].status = "Partial"
  /\ \E k \in DOMAIN payments : payments[k].invoice_id = last.invoice_id
  /\ \E w \in Workers : pc[w] = "payment_checked"

\* C10: under every interleaving of invoice-creation requests, no two invoice
\* rows carry the same invoice number.
C10_InvoiceNumbersDistinct ==
  \A i, j \in DOMAIN invoices :
    i # j => invoices[i].invoice_number # invoices[j].invoice_number

C19_BalanceNonNegative ==
  \A i \in DOMAIN invoices : Balance(i) >= 0

C11_ReadIsIdempotent ==
  /\ []( (last.op = "get_invoice" /\ last.code = 200) =>
           /\ last.invoice.balance = Balance(last.invoice_id)
           /\ last.invoice.status = invoices[last.invoice_id].status )
  /\ [][ last'.op = "get_invoice" =>
           /\ invoices' = invoices
           /\ payments' = payments
           /\ ( ( /\ last.op = "get_invoice"
                  /\ last.caller = last'.caller
                  /\ last.invoice_id = last'.invoice_id ) => last' = last ) ]_vars

\* the owner has read a partly paid invoice
C11_Witness ==
  /\ last.op = "get_invoice" /\ last.code = 200
  /\ last.caller.role_type = "student"
  /\ last.invoice.status = "Partial"
  /\ last.invoice.balance > 0
  /\ last.invoice.balance < last.invoice.total_amount

\* the invoices that are listed in the answer of the outstanding report
Reported ==
  { last.outstanding_invoices[j].invoice_id :
      j \in DOMAIN last.outstanding_invoices }

\* C12: the outstanding report lists exactly the invoices with status Pending,
\* Partial or Overdue and balance > 0: none with balance <= 0 is listed and
\* none with a positive balance is missing.
C12_OutstandingReportExact ==
  (last.op = "outstanding_report" /\ last.code = 200) =>
    /\ Reported = { i \in DOMAIN invoices :
                      invoices[i].status \in OpenStatuses /\ Balance(i) > 0 }
    /\ \A i \in Reported : Balance(i) > 0
    /\ \A i \in DOMAIN invoices : Balance(i) > 0 => i \in Reported

\* C13: the outstanding report is ordered by days_overdue descending, with
\* days_overdue = max(0, today - due_date), and invoices that are equally
\* overdue follow each other by ascending invoice_id.
C13_OutstandingReportOrder ==
  (last.op = "outstanding_report" /\ last.code = 200) =>
    LET rows == last.outstanding_invoices
    IN  /\ \A j \in DOMAIN rows :
             LET late == last.today - invoices[rows[j].invoice_id].due_date
             IN  rows[j].days_overdue = IF late > 0 THEN late ELSE 0
        /\ \A j, k \in DOMAIN rows :
             j < k =>
               /\ rows[j].days_overdue >= rows[k].days_overdue
               /\ ( rows[j].days_overdue = rows[k].days_overdue
                      => rows[j].invoice_id < rows[k].invoice_id )

\* C14: a read of one invoice is answered 404 for an unknown id, 200 for the
\* student who owns the invoice and for admin and staff, and 403 for every
\* other caller.
C14_ReadAuthorized ==
  last.op = "get_invoice" =>
    IF last.invoice_id \notin DOMAIN invoices
      THEN last.code = 404
      ELSE LET owner ==
                 /\ last.caller.role_type = "student"
                 /\ \E s \in students :
                      /\ s.user_id = last.caller.user_id
                      /\ s.student_id = invoices[last.invoice_id].student_id
           IN  IF owner \/ last.caller.role_type \in {"admin", "staff"}
                 THEN last.code = 200
                 ELSE last.code = 403

\* a student was refused the invoice of another student
C14_Witness ==
  /\ last.op = "get_invoice" /\ last.code = 403
  /\ last.caller.role_type = "student"
  /\ StudentByUser(last.caller.user_id) # {}
  /\ last.invoice_id \in DOMAIN invoices

\* C15: a listing for a student holds the invoices of the caller's own
\* student_id and no other, whatever student_id the request names; a parent
\* is answered 403; admin and staff get the invoices of the student_id they
\* name, of every student when they name none.
C15_ListingScopedByRole ==
  last.op = "get_invoices" =>
    /\ last.caller.role_type = "student" =>
         IF \E s \in students : s.user_id = last.caller.user_id
           THEN /\ last.code = 200
                /\ last.invoices =
                     { i \in DOMAIN invoices :
                         \E s \in students :
                           /\ s.user_id = last.caller.user_id
                           /\ s.student_id = invoices[i].student_id }
           ELSE last.code = 404
    /\ last.caller.role_type = "parent" => last.code = 403
    /\ last.caller.role_type \in {"admin", "staff"} =>
         /\ last.code = 200
         /\ last.invoices =
              { i \in DOMAIN invoices :
                  last.student_id = 0 \/ invoices[i].student_id = last.student_id }

\* a student asked for the invoices of another student, who has some, and got
\* their own
C15_Witness ==
  /\ last.op = "get_invoices" /\ last.code = 200
  /\ last.caller.role_type = "student"
  /\ last.student_id # 0
  /\ \A s \in StudentByUser(last.caller.user_id) : s.student_id # last.student_id
  /\ last.invoices # {}
  /\ \E i \in DOMAIN invoices : invoices[i].student_id = last.student_id

RECURSIVE UnpaidUpTo(_)
\* the balances of the first n invoices that are not fully paid
UnpaidUpTo(n) ==
  IF n = 0 THEN 0
  ELSE (IF Balance(n) > 0 THEN Balance(n) ELSE 0) + UnpaidUpTo(n - 1)

RECURSIVE CompletedUpTo(_)
\* the Completed payments of the first n invoices
CompletedUpTo(n) ==
  IF n = 0 THEN 0 ELSE SumCompleted(payments, n) + CompletedUpTo(n - 1)

\* C17: the outstanding_balance of the summary is the sum of the balances of
\* the invoices that are not fully paid, and its total_collected is the sum
\* of the Completed payments.
C17_SummaryAgreesWithBalances ==
  (last.op = "summary" /\ last.code = 200) =>
    /\ last.outstanding_balance = UnpaidUpTo(Len(invoices))
    /\ last.total_collected = CompletedUpTo(Len(invoices))

\* C18: an invoice creation, a payment creation, a fee structure creation or
\* a fee structure update that is answered with an error leaves the
\* fee_structures, invoices and payments tables as they were before the call.
C18_ErrorLeavesStore ==
  [][ last'.code \notin {200, 201} =>
        /\ fee_structures' = fee_structures
        /\ invoices' = invoices
        /\ payments' = payments ]_vars

\* an update that named a new fee_name failed on its due_date, after invoices
\* and payments were written
C18_Witness ==
  /\ last.op = "update_fee_structure" /\ last.code = 500
  /\ last.fee_id \in DOMAIN fee_structures
  /\ last.fee_name # Absent
  /\ fee_structures[last.fee_id].fee_name # last.fee_name
  /\ payments # << >>

\* C21: an invoice-creation call that names a student or a fee structure that
\* does not exist is answered 404, and every invoice row references a student
\* and a fee structure that exist.
C21_InvoiceReferencesExist ==
  /\ \A i \in DOMAIN invoices :
       /\ \E s \in students : s.student_id = invoices[i].student_id
       /\ invoices[i].fee_id \in DOMAIN fee_structures
  /\ ( /\ last.op = "create_invoice"
       /\ \/ ~\E s \in students : s.student_id = last.student_id
          \/ last.fee_id \notin DOMAIN fee_structures )
       => last.code = 404

\* the number a six-digit label reads as
NumberValue(number) ==
  number[1] * 100000 + number[2] * 10000 + number[3] * 1000
    + number[4] * 100 + number[5] * 10 + number[6]

\* C22: when invoices are created one after the other, the i-th invoice
\* carries the zero-padded number i, the count of the invoices before it plus
\* one, and the number of every invoice is greater than the numbers of the
\* invoices created before it.
C22_InvoiceNumberIncreases ==
  /\ \A i \in DOMAIN invoices :
       /\ \A k \in 1..6 : invoices[i].invoice_number[k] \in 0..9
       /\ NumberValue(invoices[i].invoice_number) = i
  /\ \A i, j \in DOMAIN invoices :
       i < j => NumberValue(invoices[i].invoice_number)
                  < NumberValue(invoices[j].invoice_number)

\* a second invoice has been created
C22_Witness ==
  /\ last.op = "create_invoice" /\ last.code = 201
  /\ Len(invoices) >= 2

\* C23: an update of a fee structure leaves every invoice row, and with it
\* its amount, discount, total_amount, due_date and status, and every balance
\* as they were.
C23_FeeUpdateLeavesInvoices ==
  [][ last'.op = "update_fee_structure" =>
        /\ invoices' = invoices
        /\ payments' = payments
        /\ \A i \in DOMAIN invoices :
             CalculateBalance(invoices', payments', i) = Balance(i) ]_vars

\* the amount of a fee structure was changed after an invoice was issued for it
C23_Witness ==
  /\ last.op = "update_fee_structure" /\ last.code = 200
  /\ last.fee_id \in DOMAIN fee_structures
  /\ \E i \in DOMAIN invoices :
       /\ invoices[i].fee_id = last.fee_id
       /\ invoices[i].amount # fee_structures[last.fee_id].amount

\* C24: every stored status is Pending, Partial or Paid, never Overdue, and
\* the stored status of an invoice changes only with a payment accepted for
\* it: no read and no report changes it, whatever the day.
C24_OverdueNeverStored ==
  /\ [](\A i \in DOMAIN invoices :
          invoices[i].status \in {"Pending", "Partial", "Paid"})
  /\ [][ \A i \in DOMAIN invoices :
           invoices'[i].status # invoices[i].status =>
             /\ last'.op = "create_payment"
             /\ last'.code = 201
             /\ last'.invoice_id = i ]_vars

\* the report listed a Pending invoice whose due date has passed
C24_Witness ==
  /\ last.op = "outstanding_report" /\ last.code = 200
  /\ \E j \in DOMAIN last.outstanding_invoices :
       /\ last.outstanding_invoices[j].days_overdue > 0
       /\ invoices[last.outstanding_invoices[j].invoice_id].status = "Pending"

\* C25: no call raises the balance of an invoice that exists.
C25_BalanceNeverIncreases ==
  [][ \A i \in DOMAIN invoices :
        CalculateBalance(invoices', payments', i) <= Balance(i) ]_vars

\* a Completed payment has brought the balance of an invoice down
C25_Witness ==
  /\ last.op = "create_payment" /\ last.code = 201
  /\ Balance(last.invoice_id) < invoices[last.invoice_id].total_amount
  /\ Balance(last.invoice_id) >= 0

\* C26: an invoice that is Paid stays Paid, and an invoice that is Partial
\* never becomes Pending again.
C26_StatusMovesForward ==
  [][ \A i \in DOMAIN invoices :
        /\ invoices[i].status = "Paid" => invoices'[i].status = "Paid"
        /\ invoices[i].status = "Partial" =>
             invoices'[i].status \in {"Partial", "Paid"} ]_vars

\* the transactions of book b that are Issued
IssuedCount(b) ==
  Cardinality({ t \in DOMAIN transactions :
                  transactions[t].book_id = b /\ transactions[t].status = "Issued" })

\* C27: for every library book 0 <= available_copies <= total_copies and
\* available_copies = total_copies minus the number of its Issued
\* transactions; an issue_book call for a book with no available copy and a
\* return_book call for a transaction that is not Issued fail and change
\* neither the books nor the transactions.
C27_AvailableCopiesConsistent ==
  /\ [](\A b \in DOMAIN books :
          /\ 0 <= books[b].available_copies
          /\ books[b].available_copies <= books[b].total_copies
          /\ books[b].available_copies = books[b].total_copies - IssuedCount(b))
  /\ [][ /\ ( /\ last'.op = "issue_book"
              /\ last' # last
              /\ last'.book_id \in DOMAIN books
              /\ books[last'.book_id].available_copies <= 0 )
           => ( /\ last'.code \notin {200, 201}
                /\ books' = books
                /\ transactions' = transactions )
         /\ ( /\ last'.op = "return_book"
              /\ last' # last
              /\ last'.transaction_id \in DOMAIN transactions
              /\ transactions[last'.transaction_id].status # "Issued" )
           => ( /\ last'.code \notin {200, 201}
                /\ books' = books
                /\ transactions' = transactions ) ]_vars

CurrentYears(school_id) ==
  { y \in DOMAIN academic_years :
      academic_years[y].school_id = school_id /\ academic_years[y].is_current }

\* C29: each school has at most one academic year that is current; a year
\* created as current clears is_current on the other years of its school and
\* leaves the years of the other schools as they were
C29_OneCurrentYear ==
  /\ [](\A k \in Schools : Cardinality(CurrentYears(k)) <= 1)
  /\ [][last'.op = "create_academic_year" =>
          IF last'.code = 201
            THEN /\ Len(academic_years') = Len(academic_years) + 1
                 /\ academic_years'[Len(academic_years')].is_current
                      = last'.data.is_current
                 /\ \A y \in DOMAIN academic_years :
                      IF /\ last'.data.is_current
                         /\ academic_years[y].school_id = last'.data.school_id
                        THEN /\ ~academic_years'[y].is_current
                             /\ academic_years'[y].school_id
                                  = academic_years[y].school_id
                        ELSE academic_years'[y] = academic_years[y]
            ELSE academic_years' = academic_years
     ]_vars

\* a year has been created as current in a school that had a current year,
\* while the other school keeps its own current year
C29_Witness ==
  /\ last.op = "create_academic_year"
  /\ last.code = 201
  /\ last.data.is_current
  /\ \E y \in 1..(Len(academic_years) - 1) :
       /\ academic_years[y].school_id = last.data.school_id
       /\ academic_years[y].start_date = "2026-01-01"
       /\ y \notin CurrentYears(last.data.school_id)
  /\ \E k \in Schools :
       /\ k # last.data.school_id
       /\ Cardinality(CurrentYears(k)) = 1
  /\ Cardinality(CurrentYears(last.data.school_id)) = 1

AttendanceKey(row) == <<row.student_id, row.class_id, row.attendance_date>>

\* the last entry of the request for the student, 0 when there is none
LastEntryFor(data, student_id) ==
  LET ks == { k \in DOMAIN data.attendance_records :
                data.attendance_records[k].student_id = student_id }
  IN IF ks = {} THEN 0 ELSE CHOOSE k \in ks : \A j \in ks : j <= k

\* C30: record_attendance is an upsert by (student_id, class_id,
\* attendance_date): there is at most one stored record per key, a call for
\* a key that is stored overwrites status and remarks of its row and adds no
\* row, and the same request made twice stores what it stores made once
C30_AttendanceUpsert ==
  /\ [](\A r, q \in DOMAIN attendance :
          AttendanceKey(attendance[r]) = AttendanceKey(attendance[q]) => r = q)
  /\ [](\A c \in AttendanceCallers, teacher_id \in TeacherIds,
           data \in AttendanceData :
          LET once == Recorded(attendance, c, teacher_id, data)
              accepted == /\ AttendanceEarlyReturn(c, teacher_id, data) = 0
                          /\ data.attendance_date # Malformed
          IN /\ Recorded(once, c, teacher_id, data) = once
             /\ \A r \in DOMAIN attendance :
                  /\ r \in DOMAIN once
                  /\ AttendanceKey(once[r]) = AttendanceKey(attendance[r])
                  /\ LET k == LastEntryFor(data, attendance[r].student_id)
                     IN IF /\ accepted
                           /\ k # 0
                           /\ attendance[r].class_id = data.class_id
                           /\ attendance[r].attendance_date = data.attendance_date
                          THEN /\ once[r].status = data.attendance_records[k].status
                               /\ once[r].remarks = data.attendance_records[k].remarks
                          ELSE once[r] = attendance[r]
             /\ Len(once) = Len(attendance) + Cardinality(
                  { s \in { data.attendance_records[k].student_id :
                              k \in DOMAIN data.attendance_records } :
                      /\ accepted
                      /\ ExistingRecords(attendance, s, data.class_id,
                                         data.attendance_date) = {} }))
  /\ [][last'.op = "record_attendance" =>
          /\ last'.code # 201 => attendance' = attendance
          /\ \A r \in DOMAIN attendance :
               /\ r \in DOMAIN attendance'
               /\ AttendanceKey(attendance'[r]) = AttendanceKey(attendance[r])
     ]_vars

\* a request with two entries has been answered 201 and left one row, which
\* carries the status and remarks of the second entry, next to a row of
\* another day
C30_Witness ==
  /\ last.op = "record_attendance"
  /\ last.code = 201
  /\ last.records = 2
  /\ Len(attendance) = 2
  /\ attendance[1].attendance_date # attendance[2].attendance_date
  /\ attendance[1].student_id = attendance[2].student_id
  /\ attendance[1].status = "Present"
  /\ attendance[2].status = "Absent"
  /\ attendance[2].remarks = "sick"
  /\ attendance[1].recorded_by # attendance[2].recorded_by

====
